---------------------------- MODULE Spec2Model ----------------------------
(***************************************************************************)
(* PyWizardLite (src/pywizardlite/pywizardlite.py).                        *)
(*                                                                         *)
(* Two operations of class PyWizardLite are modelled as state machines:    *)
(*   - setup_chrome_web_driver: host check, version probe, major-version   *)
(*     derivation, release-id GET, archive GET, extraction, chmod;         *)
(*   - wait_until_element_is_visible: the bounded polling loop.            *)
(* Strings are sequences of one-character strings.  Python's None is the   *)
(* distinguished value None below.  The wall clock is counted in           *)
(* sub-second units, TicksPerSec of them to the second.                    *)
(***************************************************************************)
EXTENDS Integers, Sequences, FiniteSets, TLC

(***************************************************************************)
(* Bounds of the model.                                                    *)
(***************************************************************************)
\* longest raw output of a host query, in characters
MaxLen == 2
\* largest wait budget passed as default_time, in seconds
MaxBudget == 3
\* clock resolution: sub-second units per second
TicksPerSec == 2
\* most elements of a document
MaxNodes == 5
\* deepest nesting of the elements of a document
MaxDepth == 3
\* longest time one find_element call takes, in sub-second units
MaxLocateDur == 3
\* latest reading of time.time() at the start of a wait call, in sub-second units
MaxStart == 1

(***************************************************************************)
(* Strings.                                                                *)
(***************************************************************************)
\* Python's None, kept apart from every string
None == <<"<None>">>

Digits == {"0", "1", "2", "3", "4", "5", "6", "7", "8", "9"}

Whitespace == {" ", "\t", "\n", "\r"}

\* the characters host queries print in this model
Chars == {"1", "9", ".", "x", " "}

\* the version string of the documentation's example
ExampleVersion ==
  <<"1", "1", "9", ".", "0", ".", "6", "0", "4", "5", ".", "1", "0", "5">>

StringsUpTo(n) == UNION {[1..k -> Chars] : k \in 0..n}

RECURSIVE lstrip(_)
\* str.lstrip(): drop leading whitespace
lstrip(s) ==
  IF s = <<>> THEN <<>>
  ELSE IF Head(s) \in Whitespace THEN lstrip(Tail(s)) ELSE s

RECURSIVE rstrip(_)
\* str.rstrip(): drop trailing whitespace
rstrip(s) ==
  IF s = <<>> THEN <<>>
  ELSE IF s[Len(s)] \in Whitespace THEN rstrip(SubSeq(s, 1, Len(s) - 1)) ELSE s

\* str.strip()
strip(s) == rstrip(lstrip(s))

RECURSIVE LeadingDigits(_)
\* the longest run of decimal digits s starts with: what ^\d+ can match
LeadingDigits(s) ==
  IF s = <<>> THEN <<>>
  ELSE IF Head(s) \in Digits THEN <<Head(s)>> \o LeadingDigits(Tail(s)) ELSE <<>>

RECURSIVE FirstDigitRun(_)
\* the first run of decimal digits anywhere in s
FirstDigitRun(s) ==
  IF s = <<>> THEN <<>>
  ELSE IF Head(s) \in Digits THEN LeadingDigits(s) ELSE FirstDigitRun(Tail(s))

\* the search without its anchor, re.search(r"\d+", s)
re_search_major_unanchored(s) ==
  IF FirstDigitRun(s) = <<>> THEN None ELSE FirstDigitRun(s)

\* re.search(r"^\d+", s): a match object carrying the group, or None
re_search_major(s) ==
  IF LeadingDigits(s) = <<>> THEN None ELSE LeadingDigits(s)


(***************************************************************************)
(* VersionProbe: __COMMANDS, __construct_powershell_commands and           *)
(* __get_chrome_version.                                                   *)
(***************************************************************************)
\* the host queries, in the order of the __COMMANDS tuple
COMMANDS ==
  <<"LOCALAPPDATA_chrome_exe", "PROGRAMFILES_chrome_exe", "PROGRAMFILES_X86_chrome_exe",
    "HKCU_BLBeacon", "HKLM_Uninstall_Google_Chrome">>

\* what evaluating one query on the host yields when the query fails
QueryError == <<"<error>">>

\* the line ending echo writes
EchoNewline == <<"\r", "\n">>

\* the composed script: ErrorActionPreference and one first-hit statement per
\* command, joined in the order of the commands
construct_powershell_commands(commands) ==
  [ErrorActionPreference |-> "silentlycontinue",
   statements |-> [i \in 1..Len(commands) |-> [expression |-> commands[i]]]]

\* $tmp = {expression}: under silentlycontinue a failing expression leaves $null
EvalExpression(host, expression) ==
  IF host[expression] = QueryError THEN <<>> ELSE host[expression]

RECURSIVE RunStatements_no_exit(_, _, _)
\* the statements without their Exit: "$tmp = e; if ($tmp) {echo $tmp;};"
RunStatements_no_exit(host, statements, i) ==
  IF i > Len(statements) THEN [stdout |-> <<>>, ran |-> <<>>]
  ELSE LET tmp == EvalExpression(host, statements[i].expression)
           rest == RunStatements_no_exit(host, statements, i + 1)
       IN  [stdout |-> (IF tmp # <<>> THEN tmp \o EchoNewline ELSE <<>>) \o rest.stdout,
            ran |-> <<statements[i].expression>> \o rest.ran]

RECURSIVE RunStatements(_, _, _)
\* powershell runs the statements from the i-th on:
\* "$tmp = e; if ($tmp) {echo $tmp; Exit;};"
RunStatements(host, statements, i) ==
  IF i > Len(statements) THEN [stdout |-> <<>>, ran |-> <<>>]
  ELSE LET tmp == EvalExpression(host, statements[i].expression)
           rest == RunStatements(host, statements, i + 1)
       IN  IF tmp # <<>>
           THEN [stdout |-> tmp \o EchoNewline, ran |-> <<statements[i].expression>>]
           ELSE [stdout |-> rest.stdout, ran |-> <<statements[i].expression>> \o rest.ran]

\* subprocess.Popen(script_command, stdout=PIPE, stderr=DEVNULL, shell=True)
Popen(host, script) == RunStatements(host, script.statements, 1)

\* __get_chrome_version: version.strip() if version else None
get_chrome_version(host) ==
  LET version == Popen(host, construct_powershell_commands(COMMANDS)).stdout
  IN  IF version # <<>> THEN strip(version) ELSE None

\* the queries one probe evaluated, in order
queries_run(host) == Popen(host, construct_powershell_commands(COMMANDS)).ran

(***************************************************************************)
(* Fetcher: __set_proxy and __get_request.                                 *)
(***************************************************************************)
\* no proxies argument (proxies = None)
NoProxies == [none |-> TRUE, http |-> "", https |-> ""]

\* a map that names the proxy for the http scheme only
set_proxy_http_only(proxy_url) ==
  IF proxy_url # "None" /\ proxy_url # ""
  THEN [none |-> FALSE, http |-> proxy_url, https |-> ""]
  ELSE NoProxies

\* __set_proxy: a map for both schemes when proxy_url is truthy, else None
set_proxy(proxy_url) ==
  IF proxy_url # "None" /\ proxy_url # ""
  THEN [none |-> FALSE, http |-> proxy_url, https |-> proxy_url]
  ELSE NoProxies

\* the timeout of every request, in seconds
RequestTimeout == 120

\* the request with its stream argument dropped
get_request_without_stream(url, proxy_url, stream) ==
  [url |-> url, proxies |-> set_proxy(proxy_url), stream |-> "None",
   timeout |-> RequestTimeout]

\* the arguments __get_request hands to requests.get
get_request(url, proxy_url, stream) ==
  [url |-> url, proxies |-> set_proxy(proxy_url), stream |-> stream,
   timeout |-> RequestTimeout]

\* f"{base_url}/LATEST_RELEASE_{major_version}"
version_latest_release(major_version) ==
  [base |-> "https://chromedriver.storage.googleapis.com",
   path |-> "LATEST_RELEASE_", arg |-> major_version]

\* f"{base_url}/{ver_lat_rel}/chromedriver_win32.zip"
content_response(ver_lat_rel) ==
  [base |-> "https://chromedriver.storage.googleapis.com",
   path |-> "/chromedriver_win32.zip", arg |-> ver_lat_rel]

(***************************************************************************)
(* The host, the network and the file system, as far as the code sees      *)
(* them.                                                                   *)
(***************************************************************************)
Platforms == {"win32", "linux", "darwin"}

ProxyUrls == {"None", "", "http://proxy:8080"}

\* a platform check that lets every host pass
system_requirements_any(platform) == TRUE

\* sys.platform == "win32"
system_requirements(platform) == platform = "win32"

\* HTTP status codes a server answers with
Statuses == {200, 404, 503}

IsSuccess(status) == status \in 200..299

\* the body of an error page
ErrorBody == <<"<", "E", "r", "r", "o", "r", ">">>

\* bodies of the answer to the release-id request: a release id, or an error page
ReleaseBodies == {<<"1", "1", "9", ".", "0", "\n">>, ErrorBody}

\* answers to the release-id request: any body with a success status, the error
\* page with any other
ReleaseAnswers ==
  {a \in [status : Statuses, text : ReleaseBodies] :
     IsSuccess(a.status) \/ a.text = ErrorBody}

\* what the bytes of the answer to the archive request are
ArchiveContents == {"zip_with_chromedriver_exe", "zip_without_chromedriver_exe", "not_a_zip"}

\* answers to the archive request: an archive comes only with a success status
ArchiveAnswers ==
  {a \in [status : Statuses, content : ArchiveContents] :
     IsSuccess(a.status) \/ a.content = "not_a_zip"}

\* self.__file_response before any download
NoResponse == [status |-> 0, content |-> "None"]

\* the mode a file is created with, rw-r--r--
CreateMode == 6 * 64 + 4 * 8 + 4

\* a chmod that leaves the file as it was created
chmod_mode_not_executable == CreateMode

\* os.chmod(self.__driver, 0o755)
chmod_mode == 493

\* the owner's execute bit, 0o100
OwnerExecutable(mode) == (mode \div 64) % 2 = 1

(***************************************************************************)
(* State.                                                                  *)
(***************************************************************************)
VARIABLES
  \* the host and the file system
  platform,                \* sys.platform
  host,                    \* what each query of COMMANDS yields on this host
  fileState,               \* chromedriver.exe in the working directory
  fileMode,                \* its permission bits
  \* setup_chrome_web_driver
  apc,                     \* position of the acquisition call
  proxy_url,               \* its argument
  machine_chrome_version,  \* local of __download_chrome_web_driver
  major_version,           \* local of __download_chrome_web_driver
  ver_lat_rel,             \* local of __download_chrome_web_driver
  release_response,        \* the answer to the release-id request
  file_response,           \* self.__file_response
  driver,                  \* self.__driver
  aerr,                    \* the exception the call ended with
  exit_code,               \* the code sys.exit was called with, -1 before
  printed,                 \* what the call printed
  \* observation of the acquisition call
  steps,                   \* the steps started, in order
  completed,               \* the steps that ended without raising, in order
  ran,                     \* the host queries the probe evaluated, in order
  calls,                   \* the external capabilities invoked, in order
  requests                 \* the arguments of every requests.get, in order

avars ==
  <<platform, host, fileState, fileMode, apc, proxy_url, machine_chrome_version,
    major_version, ver_lat_rel, release_response, file_response, driver, aerr,
    exit_code, printed, steps, completed, ran, calls, requests>>

VARIABLES
  \* wait_until_element_is_visible
  wpc,                     \* position of the wait call
  element_by,              \* its argument
  wait_time,               \* local
  start_time,              \* local, in sub-second units
  total_time,              \* local, in whole seconds
  is_element_found,        \* local: "unbound" until first assigned
  werr,                    \* the exception the call ended with
  now,                     \* time.time(), in sub-second units
  \* observation of the wait call
  locates,                 \* every find_element call: its result and its times
  sleeps                   \* every time.sleep call, in order

wvars ==
  <<wpc, element_by, wait_time, start_time, total_time, is_element_found, werr, now,
    locates, sleeps>>

VARIABLES
  \* generate_string_xpath
  xpc,                     \* position of the call
  dom,                     \* the document the driver has loaded
  text,                    \* the argument of the call
  node,                    \* the node the script found, 0 when none
  xpath                    \* what the call returned

xvars == <<xpc, dom, text, node, xpath>>

vars == <<avars, wvars, xvars>>

\* the seven steps of the acquisition, in the order of the code
STEPS ==
  <<"host_check", "version_probe", "major_version", "release_get", "archive_get",
    "extract", "chmod">>

CommandSet == {COMMANDS[i] : i \in 1..Len(COMMANDS)}

\* raw outputs of a host query: non-empty strings, and the documentation's example
VersionOutputs == (StringsUpTo(MaxLen) \ {<<>>}) \cup {ExampleVersion}

\* hosts on which at most one query yields output, the others yielding nothing
SingleHitHosts ==
  {[c \in CommandSet |-> <<>>]}
  \cup {[c \in CommandSet |-> IF c = COMMANDS[p] THEN s ELSE <<>>] :
          p \in 1..Len(COMMANDS), s \in VersionOutputs}

\* chromedriver.exe before the call: absent, or left by an earlier run
InitialFiles ==
  {[state |-> "absent", mode |-> 0], [state |-> "full", mode |-> CreateMode],
   [state |-> "full", mode |-> chmod_mode]}

\* __init__, and a host
InitAcquirer ==
  /\ platform \in Platforms
  /\ \E f \in InitialFiles : fileState = f.state /\ fileMode = f.mode
  /\ apc = "idle"
  /\ proxy_url = "None"
  /\ machine_chrome_version = None
  /\ major_version = None
  /\ ver_lat_rel = None
  /\ release_response = [status |-> 0, text |-> <<>>]
  /\ file_response = NoResponse
  /\ driver = "None"
  /\ aerr = "none"
  /\ exit_code = -1
  /\ printed = ""
  /\ steps = <<>>
  /\ completed = <<>>
  /\ ran = <<>>
  /\ calls = <<>>
  /\ requests = <<>>

(***************************************************************************)
(* setup_chrome_web_driver and __download_chrome_web_driver, one action    *)
(* per step.                                                               *)
(***************************************************************************)
\* an exception leaves the call
Raise(step, exception) ==
  /\ apc' = "failed"
  /\ aerr' = exception
  /\ steps' = Append(steps, step)
  /\ completed' = completed

\* a step ends and the next one is due
Proceed(step, next) ==
  /\ apc' = next
  /\ aerr' = aerr
  /\ steps' = Append(steps, step)
  /\ completed' = Append(completed, step)

\* an exit that reports the failure, sys.exit(1)
exit_status_failure == 1 + 0

\* sys.exit(0)
exit_status == 0

\* setup_chrome_web_driver up to the call of __download_chrome_web_driver
SetupChromeWebDriver ==
  /\ UNCHANGED <<wvars, xvars>>
  /\ apc = "idle"
  /\ \E p \in ProxyUrls : proxy_url' = p
  /\ IF system_requirements(platform)
     THEN /\ Proceed("host_check", "get_chrome_version")
          /\ UNCHANGED <<printed, exit_code>>
     ELSE /\ printed' = "System does not meet the requirements"
          /\ exit_code' = exit_status
          /\ apc' = "exited"
          /\ steps' = Append(steps, "host_check")
          /\ UNCHANGED <<aerr, completed>>
  /\ UNCHANGED <<platform, host, fileState, fileMode, machine_chrome_version,
                 major_version, ver_lat_rel, release_response, file_response, driver,
                 ran, calls, requests>>

\* machine_chrome_version = self.__get_chrome_version()
GetChromeVersion ==
  /\ UNCHANGED <<wvars, xvars>>
  /\ apc = "get_chrome_version"
  /\ machine_chrome_version' = get_chrome_version(host)
  /\ ran' = queries_run(host)
  /\ calls' = Append(calls, "Popen")
  /\ Proceed("version_probe", "major_version")
  /\ UNCHANGED <<platform, host, fileState, fileMode, proxy_url, major_version,
                 ver_lat_rel, release_response, file_response, driver, exit_code,
                 printed, requests>>

\* major_version = re.search(r"^\d+", machine_chrome_version).group()
MajorVersion ==
  /\ UNCHANGED <<wvars, xvars>>
  /\ apc = "major_version"
  /\ IF machine_chrome_version = None
     THEN /\ Raise("major_version", "TypeError")
          /\ UNCHANGED major_version
     ELSE IF re_search_major(machine_chrome_version) = None
     THEN /\ Raise("major_version", "AttributeError")
          /\ UNCHANGED major_version
     ELSE /\ major_version' = re_search_major(machine_chrome_version)
          /\ Proceed("major_version", "release_get")
  /\ UNCHANGED <<platform, host, fileState, fileMode, proxy_url,
                 machine_chrome_version, ver_lat_rel, release_response, file_response,
                 driver, exit_code, printed, ran, calls, requests>>

\* ver_lat_rel = self.__get_request(version_latest_release, proxy_url).text.strip()
ReleaseGet ==
  /\ UNCHANGED <<wvars, xvars>>
  /\ apc = "release_get"
  /\ calls' = Append(calls, "requests.get")
  /\ requests' =
       Append(requests, get_request(version_latest_release(major_version), proxy_url, "None"))
  /\ \/ /\ Raise("release_get", "RequestException")
        /\ UNCHANGED <<ver_lat_rel, release_response>>
     \/ \E answer \in ReleaseAnswers :
          /\ release_response' = answer
          /\ ver_lat_rel' = strip(answer.text)
          /\ Proceed("release_get", "archive_get")
  /\ UNCHANGED <<platform, host, fileState, fileMode, proxy_url,
                 machine_chrome_version, major_version, file_response, driver,
                 exit_code, printed, ran>>

\* self.__file_response = self.__get_request(content_response, proxy_url, _stream = True)
ArchiveGet ==
  /\ UNCHANGED <<wvars, xvars>>
  /\ apc = "archive_get"
  /\ calls' = Append(calls, "requests.get")
  /\ requests' =
       Append(requests, get_request(content_response(ver_lat_rel), proxy_url, "True"))
  /\ \/ /\ Raise("archive_get", "RequestException")
        /\ UNCHANGED file_response
     \/ \E answer \in ArchiveAnswers :
          /\ file_response' = answer
          /\ Proceed("archive_get", "extract_zip")
  /\ UNCHANGED <<platform, host, fileState, fileMode, proxy_url,
                 machine_chrome_version, major_version, ver_lat_rel, release_response,
                 driver, exit_code, printed, ran>>

\* self.__extract_zip()
ExtractZip ==
  /\ UNCHANGED <<wvars, xvars>>
  /\ apc = "extract_zip"
  /\ driver' = "chromedriver.exe"
  /\ \/ \* reading the streamed body fails
        /\ Raise("extract", "RequestException")
        /\ UNCHANGED <<calls, fileState, fileMode>>
     \/ /\ file_response.content = "not_a_zip"
        /\ calls' = Append(calls, "ZipFile")
        /\ Raise("extract", "BadZipFile")
        /\ UNCHANGED <<fileState, fileMode>>
     \/ /\ file_response.content = "zip_without_chromedriver_exe"
        /\ calls' = Append(calls, "ZipFile")
        /\ Raise("extract", "KeyError")
        /\ UNCHANGED <<fileState, fileMode>>
     \/ /\ file_response.content = "zip_with_chromedriver_exe"
        /\ calls' = Append(calls, "ZipFile")
        /\ \/ \* the entry is written out whole
              /\ fileState' = "full"
              /\ fileMode' = IF fileState = "absent" THEN CreateMode ELSE fileMode
              /\ Proceed("extract", "set_permission")
           \/ \* writing the entry fails part-way
              /\ fileState' = "partial"
              /\ fileMode' = IF fileState = "absent" THEN CreateMode ELSE fileMode
              /\ Raise("extract", "OSError")
  /\ UNCHANGED <<platform, host, proxy_url, machine_chrome_version, major_version,
                 ver_lat_rel, release_response, file_response, exit_code, printed, ran,
                 requests>>

\* self.__set_execusion_permission(), and the return of the call
SetExecusionPermission ==
  /\ UNCHANGED <<wvars, xvars>>
  /\ apc = "set_permission"
  /\ calls' = Append(calls, "os.chmod")
  /\ \/ /\ fileMode' = chmod_mode
        /\ Proceed("chmod", "done")
     \/ /\ Raise("chmod", "OSError")
        /\ UNCHANGED fileMode
  /\ UNCHANGED <<platform, host, fileState, proxy_url, machine_chrome_version,
                 major_version, ver_lat_rel, release_response, file_response, driver,
                 exit_code, printed, ran, requests>>

NextAcquire ==
  \/ SetupChromeWebDriver
  \/ GetChromeVersion
  \/ MajorVersion
  \/ ReleaseGet
  \/ ArchiveGet
  \/ ExtractZip
  \/ SetExecusionPermission

(***************************************************************************)
(* LocateEngine: wait_until_element_is_visible.                            *)
(***************************************************************************)
\* the table with a lower-case alias of XPath
element_dict_with_alias ==
  [ClassName |-> "class name", CSSSelector |-> "css selector", ID |-> "id",
   LinkText |-> "link text", Name |-> "name", PartialLinkText |-> "partial link text",
   TagName |-> "tag name", XPath |-> "xpath", xpath |-> "xpath"]

\* the table of locator strategies
element_dict ==
  [ClassName |-> "class name", CSSSelector |-> "css selector", ID |-> "id",
   LinkText |-> "link text", Name |-> "name", PartialLinkText |-> "partial link text",
   TagName |-> "tag name", XPath |-> "xpath"]

\* strategy names callers pass in this model: two of the table, one not in it
StrategyInputs == {"XPath", "CSSSelector", "xpath"}

\* budgets callers pass as default_time; the default of 60 s is beyond the bounds
Budgets == (0 - 1)..MaxBudget

\* what one find_element call does: returns an element, returns None, raises this
\* module's ElementNotFound, or raises the driver's own NoSuchElementException
LocateOutcomes == {"element", "None", "ElementNotFound", "NoSuchElementException"}

\* the exceptions the except clause of the loop catches
Caught == {"ElementNotFound"}

\* found_wait_time
found_wait_time == 1

\* the try body without its test for None: is_element_found = True on any return
found_after_no_none_test(outcome, before) ==
  IF outcome \in {"element", "None"} THEN "True" ELSE "False"

\* is_element_found after a find_element call that returned or raised a caught
\* exception: True on an element, unchanged on None, False in the except clause
found_after(outcome, before) ==
  IF outcome = "element" THEN "True"
  ELSE IF outcome = "None" THEN before
  ELSE "False"

\* the elapsed time counted one second short, as a test total_time > wait_time
\* in place of >= would
elapsed_seconds_late(end_time, start) == ((end_time - start) \div TicksPerSec) - 1

\* int(end_time - start_time)
elapsed_seconds(end_time, start) == (end_time - start) \div TicksPerSec

InitWait ==
  /\ wpc = "idle"
  /\ element_by = "None"
  /\ wait_time = 0
  /\ start_time = 0
  /\ total_time = 0
  /\ is_element_found = "unbound"
  /\ werr = "none"
  /\ now = 0
  /\ locates = <<>>
  /\ sleeps = <<>>

\* the call, up to the loop: wait_time, found_wait_time and start_time are set
WaitUntilElementIsVisible ==
  /\ UNCHANGED <<avars, xvars>>
  /\ wpc = "idle"
  /\ \E by \in StrategyInputs, default_time \in Budgets, t0 \in 0..MaxStart :
       /\ element_by' = by
       /\ wait_time' = default_time
       /\ start_time' = t0
       /\ now' = t0
  /\ wpc' = "loop"
  /\ UNCHANGED <<total_time, is_element_found, werr, locates, sleeps>>

\* the head of an iteration: the timeout check
CheckTimeout ==
  /\ UNCHANGED <<avars, xvars>>
  /\ wpc = "loop"
  /\ total_time' = elapsed_seconds(now, start_time)
  /\ IF total_time' >= wait_time
     THEN /\ werr' = "ElementNotFound"
          /\ wpc' = "raised"
     ELSE /\ werr' = werr
          /\ wpc' = "try"
  /\ UNCHANGED <<element_by, wait_time, start_time, is_element_found, now, locates,
                 sleeps>>

\* the try statement: one find_element call
TryFindElement ==
  /\ UNCHANGED <<avars, xvars>>
  /\ wpc = "try"
  /\ IF element_by \notin DOMAIN element_dict
     THEN \* element_dict[element_by] raises before the driver is called
          /\ werr' = "KeyError"
          /\ wpc' = "raised"
          /\ UNCHANGED <<is_element_found, now, locates>>
     ELSE \E outcome \in LocateOutcomes, duration \in 0..MaxLocateDur :
            /\ now' = now + duration
            /\ locates' =
                 Append(locates,
                        [by |-> element_dict[element_by], outcome |-> outcome,
                         started |-> now - start_time, ended |-> now' - start_time,
                         checked |-> total_time])
            /\ IF outcome \in {"element", "None"} \/ outcome \in Caught
               THEN /\ is_element_found' = found_after(outcome, is_element_found)
                    /\ wpc' = "if"
                    /\ werr' = werr
               ELSE /\ is_element_found' = is_element_found
                    /\ wpc' = "raised"
                    /\ werr' = outcome
  /\ UNCHANGED <<element_by, wait_time, start_time, total_time, sleeps>>

\* if is_element_found: sleep, break; else sleep(1)
IfElementFound ==
  /\ UNCHANGED <<avars, xvars>>
  /\ wpc = "if"
  /\ IF is_element_found = "unbound"
     THEN /\ werr' = "UnboundLocalError"
          /\ wpc' = "raised"
          /\ UNCHANGED <<now, sleeps>>
     ELSE IF is_element_found = "True"
     THEN /\ now' = now + found_wait_time * TicksPerSec
          /\ sleeps' = Append(sleeps, "settle")
          /\ wpc' = "returned"
          /\ werr' = werr
     ELSE /\ now' = now + 1 * TicksPerSec
          /\ sleeps' = Append(sleeps, "tick")
          /\ wpc' = "loop"
          /\ werr' = werr
  /\ UNCHANGED <<element_by, wait_time, start_time, total_time, is_element_found,
                 locates>>

NextWait ==
  \/ WaitUntilElementIsVisible
  \/ CheckTimeout
  \/ TryFindElement
  \/ IfElementFound

(***************************************************************************)
(* XPathSynthesizer: generate_string_xpath.  A document is its elements in *)
(* document order: element i has depth[i] (the root element has 1), a      *)
(* tagName and the content of its first text node (empty when it has       *)
(* none).  Node 0 is the document itself.                                  *)
(***************************************************************************)
\* tagName values of the elements, and what toLowerCase makes of them
ToLowerCase == [DIV |-> "div", SPAN |-> "span"]

TagNames == DOMAIN ToLowerCase

\* contents of a first text node
NodeTexts == {<<"x">>, <<"S", "u">>}

\* texts callers search for
SearchTexts == {<<" ", "S", " ">>, <<"z">>}

\* the documents of at most MaxNodes elements, nested at most MaxDepth deep
Documents ==
  UNION {
    {d \in [depth : [1..n -> 1..MaxDepth], tag : [1..n -> TagNames],
            content : [1..n -> NodeTexts]] :
       /\ d.depth[1] = 1
       /\ \A i \in 2..n : d.depth[i] >= 2 /\ d.depth[i] <= d.depth[i - 1] + 1}
    : n \in 1..MaxNodes}

Elements(d) == DOMAIN d.depth

\* parentNode: the nearest element before i that is one level up, the document
\* for the root element
ParentNode(d, i) ==
  IF d.depth[i] = 1 THEN 0
  ELSE CHOOSE j \in Elements(d) :
         /\ j < i
         /\ d.depth[j] = d.depth[i] - 1
         /\ \A k \in Elements(d) : (k < i /\ d.depth[k] = d.depth[i] - 1) => k <= j

\* the XPath function contains
Contains(s, t) ==
  \E k \in 0..(Len(s) - Len(t)) : SubSeq(s, k + 1, k + Len(t)) = t

\* String.prototype.trim
trim(s) == rstrip(lstrip(s))

\* document.evaluate("//*[contains(text(), searchText)]", FIRST_ORDERED_NODE_TYPE):
\* the first element in document order whose first text node contains the text
singleNodeValue(d, searchText) ==
  LET hits == {i \in Elements(d) : Contains(d.content[i], searchText)}
  IN  IF hits = {} THEN 0 ELSE CHOOSE i \in hits : \A j \in hits : i <= j

\* the child elements of the parent of i that have the tag name of i
siblings(d, i) ==
  {j \in Elements(d) :
     /\ ParentNode(d, j) = ParentNode(d, i)
     /\ ToLowerCase[d.tag[j]] = ToLowerCase[d.tag[i]]}

\* siblings.indexOf(element) + 1
index(d, i) == Cardinality({j \in siblings(d, i) : j <= i})

\* a position written in decimal
DecimalString == <<"1", "2", "3", "4", "5", "6", "7", "8", "9">>

RECURSIVE getXPath(_, _)
\* the function getXPath of the script: "/" for the document, else the path of
\* the parent followed by /tag[index]
getXPath(d, i) ==
  IF i = 0 THEN <<"/">>
  ELSE getXPath(d, ParentNode(d, i))
         \o <<"/", ToLowerCase[d.tag[i]], "[", DecimalString[index(d, i)], "]">>

\* what the script returns: the path of the node found, or nothing
execute_script(d, t) ==
  LET found == singleNodeValue(d, trim(t))
  IN  IF found # 0 THEN getXPath(d, found) ELSE None

\* the location steps of a path of the form the script writes: each is
\* /tag[position], and a doubled slash before it makes it a step from every
\* descendant of the context instead of from the context alone
RECURSIVE LocationSteps(_)
LocationSteps(p) ==
  IF Len(p) >= 6 /\ p[1] = "/" /\ p[2] = "/"
  THEN <<[descend |-> TRUE, tag |-> p[3], position |-> p[5]]>>
         \o LocationSteps(SubSeq(p, 7, Len(p)))
  ELSE IF Len(p) >= 5 /\ p[1] = "/"
  THEN <<[descend |-> FALSE, tag |-> p[2], position |-> p[4]]>>
         \o LocationSteps(SubSeq(p, 6, Len(p)))
  ELSE <<>>

RECURSIVE IsDescendantOrSelf(_, _, _)
IsDescendantOrSelf(d, i, c) ==
  \/ i = c
  \/ i # 0 /\ IsDescendantOrSelf(d, ParentNode(d, i), c)

\* one location step from a set of context nodes: the child elements with the
\* tag whose position among the children with that tag is the one asked for
LocationStep(d, context, step) ==
  LET from == IF step.descend
              THEN {i \in Elements(d) \cup {0} :
                      \E c \in context : IsDescendantOrSelf(d, i, c)}
              ELSE context
  IN  {i \in Elements(d) :
         /\ ParentNode(d, i) \in from
         /\ ToLowerCase[d.tag[i]] = step.tag
         /\ DecimalString[index(d, i)] = step.position}

RECURSIVE SelectNodes(_, _, _)
SelectNodes(d, context, steps_left) ==
  IF steps_left = <<>> THEN context
  ELSE SelectNodes(d, LocationStep(d, context, Head(steps_left)), Tail(steps_left))

\* find_element(By.XPATH, p): the first node in document order the path
\* selects from the document, 0 when it selects none
find_element_by_xpath(d, p) ==
  LET selected == SelectNodes(d, {0}, LocationSteps(p))
  IN  IF selected = {} THEN 0 ELSE CHOOSE i \in selected : \A j \in selected : i <= j

\* the page of the calls that do not concern the document
BlankDocument ==
  [depth |-> <<1>>, tag |-> <<"DIV">>, content |-> <<<<"x">>>>]

InitSynthesizer ==
  /\ xpc = "idle"
  /\ text = <<>>
  /\ node = 0
  /\ xpath = None

\* generate_string_xpath: build the script, run it in the page, return its result
GenerateStringXPath ==
  /\ UNCHANGED <<avars, wvars>>
  /\ xpc = "idle"
  /\ \E t \in SearchTexts :
       /\ text' = t
       /\ node' = singleNodeValue(dom, trim(t))
       /\ xpath' = execute_script(dom, t)
  /\ xpc' = "returned"
  /\ dom' = dom

NextSynthesize == GenerateStringXPath

(***************************************************************************)
(* Specifications.                                                         *)
(***************************************************************************)
\* a host on which any query may fail, yield nothing or yield output
ProbeOutputs == {<<"1", "1", "9">>, <<" ", "9">>, <<" ">>}

AnyHosts == [CommandSet -> {QueryError, <<>>} \cup ProbeOutputs]

\* the acquisition on hosts where at most one query yields output
InitAcquire ==
  /\ InitAcquirer /\ InitWait /\ host \in SingleHitHosts
  /\ InitSynthesizer /\ dom = BlankDocument

SpecAcquire == InitAcquire /\ [][NextAcquire]_vars

\* the version probe on any host
InitProbe == InitAcquirer /\ InitWait /\ host \in AnyHosts /\ platform = "win32"
             /\ fileState = "absent" /\ InitSynthesizer /\ dom = BlankDocument

NextProbe ==
  \/ SetupChromeWebDriver
  \/ GetChromeVersion

SpecProbe == InitProbe /\ [][NextProbe]_vars

\* the wait call
InitWaiting ==
  /\ InitAcquirer /\ InitWait
  /\ host = [c \in CommandSet |-> <<>>]
  /\ platform = "win32"
  /\ fileState = "absent"
  /\ InitSynthesizer /\ dom = BlankDocument

SpecWait == InitWaiting /\ [][NextWait]_vars

\* the synthesizer on any document within the bounds
InitSynthesize ==
  /\ InitAcquirer /\ InitWait
  /\ host = [c \in CommandSet |-> <<>>]
  /\ platform = "win32"
  /\ fileState = "absent"
  /\ InitSynthesizer /\ dom \in Documents

SpecSynthesize == InitSynthesize /\ [][NextSynthesize]_vars

\* the wait call in a thread that keeps running: the call is made, every
\* find_element call returns and every sleep ends
SpecWaitFair == SpecWait /\ WF_vars(NextWait)

(***************************************************************************)
(* Claims about wait_until_element_is_visible, under SpecWait.             *)
(***************************************************************************)
\* the results of find_element that are a failure of the lookup
LookupFailures == {"ElementNotFound", "NoSuchElementException"}

ValidStrategy == element_by \in DOMAIN element_dict

\* every find_element call so far failed
AllLocatesFailed == \A i \in 1..Len(locates) : locates[i].outcome \in LookupFailures

\* wall-clock time since the call began, in sub-second units
Elapsed == now - start_time

\* C1: with a budget N >= 0 and a driver whose find_element fails on every attempt,
\* the call never returns, and when it fails it fails with ElementNotFound at an
\* elapsed time t with N <= t < N + 1 second.
C1_FailsAtBudget ==
  (ValidStrategy /\ wait_time >= 0 /\ AllLocatesFailed /\ wpc \in {"raised", "returned"})
    => /\ wpc = "raised"
       /\ werr = "ElementNotFound"
       /\ wait_time * TicksPerSec <= Elapsed
       /\ Elapsed < (wait_time + 1) * TicksPerSec

\* the state right after a find_element call, before any sleep
JustLocated == Len(locates) = Len(sleeps) + 1

\* C2: with a valid strategy, a lookup failure of one attempt is absorbed (the call
\* goes on to the 1-second sleep with the element not found), and the only error
\* the caller sees is ElementNotFound at the timeout.
C2_LookupFailureAbsorbed ==
  ValidStrategy =>
    /\ (JustLocated /\ locates[Len(locates)].outcome \in LookupFailures)
         => (wpc = "if" /\ is_element_found = "False")
    /\ wpc = "raised" => (werr = "ElementNotFound" /\ total_time >= wait_time)

\* C3: when find_element fails on attempts 1..k-1 and returns an element on attempt
\* k (k within the budget), the call does not raise, makes no attempt after the
\* k-th, and returns after k polling sleeps and one settle sleep.
C3_ReturnsAfterKthAttempt ==
  ValidStrategy =>
    /\ (AllLocatesFailed /\ Len(locates) < wait_time /\ locates # <<>>
          /\ Elapsed < (wait_time - 1) * TicksPerSec)
         => wpc # "raised"
    /\ \A i \in 1..Len(locates) : locates[i].outcome = "element" => i = Len(locates)
    /\ (wpc = "returned"
          /\ \A i \in 1..(Len(locates) - 1) : locates[i].outcome \in LookupFailures)
         => /\ sleeps = [i \in 1..(Len(locates) + 1) |->
                           IF i <= Len(locates) THEN "tick" ELSE "settle"]
            /\ Elapsed >= (Len(locates) + 1) * TicksPerSec

(***************************************************************************)
(* Claims about setup_chrome_web_driver, under SpecAcquire.                *)
(***************************************************************************)
Started(step) == \E i \in 1..Len(steps) : steps[i] = step

Completed(step) == \E i \in 1..Len(completed) : completed[i] = step

IsPrefix(s, t) == Len(s) <= Len(t) /\ \A i \in 1..Len(s) : s[i] = t[i]

\* the external capabilities a whole acquisition invokes, in order
CAPABILITIES == <<"Popen", "requests.get", "requests.get", "ZipFile", "os.chmod">>

\* C4: on a host that fails the platform check no request is made, no version probe
\* is run, no archive is opened and no chmod is made.
C4_UnsupportedHostDoesNothing ==
  platform # "win32" =>
    /\ requests = <<>>
    /\ calls = <<>>
    /\ ran = <<>>
    /\ apc \in {"idle", "exited"}
    /\ steps \in {<<>>, <<"host_check">>}

C4_Witness == platform # "win32" /\ apc = "exited"

\* C5: the steps run in the order host check, version probe, major version,
\* release-id GET, archive GET (streamed), extraction, chmod; a step starts only
\* when the one before it ended without raising and works on what that one
\* produced; the call returns only when all seven have ended without raising.
C5_StrictlySequential ==
  /\ IsPrefix(steps, STEPS)
  /\ IsPrefix(completed, steps)
  /\ Len(steps) <= Len(completed) + 1
  /\ IsPrefix(calls, CAPABILITIES)
  /\ Completed("version_probe") => machine_chrome_version = get_chrome_version(host)
  /\ Started("release_get") =>
       /\ Len(requests) >= 1
       /\ requests[1].url = version_latest_release(major_version)
       /\ requests[1].url.arg = LeadingDigits(machine_chrome_version)
       /\ requests[1].stream = "None"
  /\ Started("archive_get") =>
       /\ Len(requests) = 2
       /\ requests[2].url = content_response(strip(release_response.text))
       /\ requests[2].stream = "True"
  /\ Completed("extract") =>
       /\ file_response.content = "zip_with_chromedriver_exe"
       /\ fileState = "full"
  /\ Started("chmod") => driver = "chromedriver.exe"
  /\ apc = "done" <=> completed = STEPS

C5_Witness == apc = "done" /\ steps = STEPS /\ calls = CAPABILITIES

\* C6: when the release-id request fails in transport or is answered with a
\* non-success status, the call fails, the body is not taken as the release id, and
\* no archive request, extraction or chmod follows.
C6_NonSuccessReleaseStops ==
  (Started("release_get") /\ ~IsSuccess(release_response.status)) =>
    /\ apc = "failed"
    /\ ver_lat_rel = None
    /\ Len(requests) = 1
    /\ calls = <<"Popen", "requests.get">>

\* C7: when the probe returns None the call stops at the probe and reports that no
\* version was found, not an error of the major-version step; no request,
\* extraction or chmod is made.
C7_AbsentVersionStopsAtProbe ==
  (Completed("version_probe") /\ machine_chrome_version = None) =>
    /\ ~Started("major_version")
    /\ aerr \notin {"TypeError", "AttributeError"}
    /\ requests = <<>>
    /\ calls = <<"Popen">>

\* s is a run of decimal digits
AllDigits(s) == \A i \in 1..Len(s) : s[i] \in Digits

\* m is the longest run of decimal digits that v starts with
IsLeadingRun(m, v) ==
  /\ IsPrefix(m, v)
  /\ AllDigits(m)
  /\ Len(m) < Len(v) => v[Len(m) + 1] \notin Digits

\* C8: the major version is the leading run of decimal digits of the version string
\* ("119.0.6045.105" gives "119"); a version string that starts with no digit makes
\* the major-version step fail, and no request is made.
C8_MajorVersionExtraction ==
  (Started("major_version") /\ machine_chrome_version # None) =>
    IF machine_chrome_version # <<>> /\ machine_chrome_version[1] \in Digits
    THEN /\ Completed("major_version")
         /\ major_version # <<>>
         /\ IsLeadingRun(major_version, machine_chrome_version)
         /\ machine_chrome_version = ExampleVersion => major_version = <<"1", "1", "9">>
    ELSE /\ apc = "failed"
         /\ aerr = "AttributeError"
         /\ steps = <<"host_check", "version_probe", "major_version">>
         /\ major_version = None
         /\ requests = <<>>

C8_Witness ==
  /\ Started("major_version")
  /\ machine_chrome_version # None
  /\ machine_chrome_version # <<>>
  /\ machine_chrome_version[1] \notin Digits
  /\ aerr = "AttributeError"

C8_WitnessExample ==
  /\ machine_chrome_version = ExampleVersion
  /\ major_version = <<"1", "1", "9">>
  /\ Completed("major_version")

\* C9: when the call has returned, chromedriver.exe is extracted whole and its owner
\* may execute it; a failing extraction or chmod ends the call with that exception,
\* never with a return.
C9_SuccessMeansUsableDriver ==
  /\ apc = "done" =>
       /\ fileState = "full"
       /\ OwnerExecutable(fileMode)
       /\ driver = "chromedriver.exe"
       /\ aerr = "none"
  /\ \A step \in {"extract", "chmod"} :
       (Started(step) /\ ~Completed(step)) =>
         /\ apc = "failed"
         /\ aerr \in {"RequestException", "BadZipFile", "KeyError", "OSError"}

C9_Witness == apc = "done" /\ fileState = "full" /\ OwnerExecutable(fileMode)

C9_WitnessFailure == Started("chmod") /\ ~Completed("chmod") /\ apc = "failed"

(***************************************************************************)
(* Claims about the version probe, under SpecProbe.                        *)
(***************************************************************************)
\* the positions in COMMANDS of the queries that yield output on this host
Hits == {i \in 1..Len(COMMANDS) : host[COMMANDS[i]] \notin {QueryError, <<>>}}

\* t is s without its leading and trailing whitespace
IsTrimOf(t, s) ==
  \E i \in 1..(Len(s) + 1), j \in 0..Len(s) :
    /\ t = SubSeq(s, i, j)
    /\ \A k \in 1..Len(s) : (k < i \/ k > j) => s[k] \in Whitespace
    /\ t # <<>> => (t[1] \notin Whitespace /\ t[Len(t)] \notin Whitespace)

\* C10: when exactly one query yields output, the probe returns that output trimmed,
\* wherever the query stands in the list; the queries before it are evaluated and
\* passed over, none after it is evaluated; when no query yields output the probe
\* returns None.
C10_FirstHitWins ==
  Completed("version_probe") =>
    /\ Cardinality(Hits) = 1 =>
         LET p == CHOOSE i \in Hits : TRUE
         IN  /\ machine_chrome_version # None
             /\ IsTrimOf(machine_chrome_version, host[COMMANDS[p]])
             /\ ran = SubSeq(COMMANDS, 1, p)
    /\ Hits = {} =>
         /\ machine_chrome_version = None
         /\ ran = COMMANDS

C10_Witness ==
  /\ Completed("version_probe")
  /\ Hits = {3}
  /\ host[COMMANDS[1]] = QueryError
  /\ host[COMMANDS[2]] = <<>>
  /\ host[COMMANDS[3]] = <<" ", "9">>
  /\ machine_chrome_version = <<"9">>

(***************************************************************************)
(* Further claims about wait_until_element_is_visible, under SpecWait.     *)
(***************************************************************************)
\* the strategy names of the documentation
StrategyNames ==
  {"ClassName", "CSSSelector", "ID", "LinkText", "Name", "PartialLinkText", "TagName",
   "XPath"}

\* a call is under way or over, with a strategy name outside the documented ones
InvalidStrategy == wpc # "idle" /\ element_by \notin StrategyNames

\* C11 as stated: with a strategy name outside the documented ones the call fails,
\* for every budget, with an error other than ElementNotFound and without a
\* find_element call.
C11_InvalidStrategyAnyBudget ==
  InvalidStrategy =>
    /\ locates = <<>>
    /\ wpc # "returned"
    /\ wpc = "raised" => werr # "ElementNotFound"

\* C11 as amended: with a strategy name outside the documented ones no find_element
\* call is made and nothing is absorbed; with a budget of at least 1 the call fails
\* with KeyError, with a budget of 0 or less the timeout check comes first and the
\* call fails with ElementNotFound.
C11_InvalidStrategyFromBudgetOne ==
  InvalidStrategy =>
    /\ locates = <<>>
    /\ sleeps = <<>>
    /\ wpc # "returned"
    /\ (wpc = "raised" /\ wait_time >= 1) => werr = "KeyError"
    /\ (wpc = "raised" /\ wait_time <= 0) => werr = "ElementNotFound"

C11_Witness == InvalidStrategy /\ wpc = "raised" /\ werr = "KeyError" /\ wait_time >= 1

\* C14: a find_element call that returns None, on the first iteration or a later
\* one, counts as not found: the call does not return because of it, does not fail
\* with anything but ElementNotFound, and goes on polling.
C14_NoneIsNotFound ==
  (ValidStrategy /\ locates # <<>> /\ locates[Len(locates)].outcome = "None") =>
    /\ wpc # "returned"
    /\ wpc = "raised" => werr = "ElementNotFound"
    /\ JustLocated => (wpc = "if" /\ is_element_found # "True")

(***************************************************************************)
(* Further claims about setup_chrome_web_driver, under SpecAcquire.        *)
(***************************************************************************)
\* C12: on a host that fails the platform check the call prints a diagnostic and
\* exits the process with code 0; it does not return and does not exit with
\* another code.
C12_UnsupportedHostExitsZero ==
  (platform # "win32" /\ apc # "idle") =>
    /\ apc = "exited"
    /\ exit_code = 0
    /\ printed = "System does not meet the requirements"
    /\ aerr = "none"

C12_Witness == apc = "exited" /\ exit_code = 0 /\ printed # ""

\* how often x occurs in seq
Count(seq, x) == Cardinality({i \in 1..Len(seq) : seq[i] = x})

\* how many capabilities have been invoked at most when a step raises
CallsUpTo(step) ==
  CASE step = "host_check" -> 0
    [] step = "version_probe" -> 1
    [] step = "major_version" -> 1
    [] step = "release_get" -> 2
    [] step = "archive_get" -> 3
    [] step = "extract" -> 4
    [] step = "chmod" -> 5

\* a step has failed in the sense of the documentation: it raised, the probe found
\* no version, or a request was answered with a non-success status
StepFailed(step) ==
  \/ Started(step) /\ ~Completed(step) /\ apc = "failed"
  \/ step = "host_check" /\ Started(step) /\ platform # "win32"
  \/ step = "version_probe" /\ Completed(step) /\ machine_chrome_version = None
  \/ step = "release_get" /\ Completed(step) /\ ~IsSuccess(release_response.status)
  \/ step = "archive_get" /\ Completed(step) /\ ~IsSuccess(file_response.status)

\* no step is started after a failed one
NoStepAfterFailure ==
  \A i \in 1..Len(steps) : StepFailed(steps[i]) => i = Len(steps)

\* C5 with success of a step as the documentation has it: the steps run in the
\* order of the code, each on what the one before produced, a step starts only
\* after the one before it succeeded, and the call returns only after all seven
\* succeeded.
C5_EachStepAfterSuccess ==
  /\ C5_StrictlySequential
  /\ NoStepAfterFailure
  /\ apc = "done" => \A i \in 1..Len(STEPS) : ~StepFailed(STEPS[i])

\* in one call the host shell is invoked once, each of the two requests at most
\* once, the archive is opened at most once and chmod is called at most once; when
\* a step raises, the call ends with that exception and no capability of a later
\* step is invoked
NoRetryNoContinuation ==
  /\ Count(calls, "Popen") = (IF Started("version_probe") THEN 1 ELSE 0)
  /\ Count(calls, "ZipFile") <= 1
  /\ Count(calls, "os.chmod") <= 1
  /\ Count(calls, "requests.get") = Len(requests)
  /\ Cardinality({i \in 1..Len(requests) : requests[i].url.path = "LATEST_RELEASE_"}) <= 1
  /\ Cardinality({i \in 1..Len(requests) :
                    requests[i].url.path = "/chromedriver_win32.zip"}) <= 1
  /\ \A i, j \in 1..Len(steps) : steps[i] = steps[j] => i = j
  /\ aerr # "none" =>
       /\ apc = "failed"
       /\ Len(steps) = Len(completed) + 1
       /\ Len(calls) <= CallsUpTo(steps[Len(steps)])
  /\ apc = "failed" => aerr # "none"

\* C15: no capability is invoked twice in one call, and once a step has failed (it
\* raised, or a request was answered with a non-success status, or the probe found
\* no version) the call ends at once and no capability of a later step is invoked.
C15_NoRetryNoContinuation ==
  /\ NoRetryNoContinuation
  /\ \A i \in 1..Len(steps) :
       StepFailed(steps[i]) => Len(calls) <= CallsUpTo(steps[i])

\* C16: every request of a call carries the same proxy map, with the proxy URL of
\* the call under http and under https; a call without a proxy URL (None, or the
\* empty string) makes every request without a proxy map.
C16_ProxyAppliedUniformly ==
  \A i \in 1..Len(requests) :
    requests[i].proxies =
      IF proxy_url \in {"None", ""}
      THEN [none |-> TRUE, http |-> "", https |-> ""]
      ELSE [none |-> FALSE, http |-> proxy_url, https |-> proxy_url]

C16_Witness ==
  /\ Len(requests) = 2
  /\ proxy_url = "http://proxy:8080"
  /\ requests[1].proxies = requests[2].proxies
  /\ requests[2].proxies.https = "http://proxy:8080"

C16_WitnessDirect == Len(requests) = 2 /\ proxy_url = "None" /\ requests[2].proxies.none

\* C17: when a call that downloaded the archive is over, by return or by an
\* exception of the extraction or of chmod, the instance no longer holds the
\* downloaded response.
C17_ArchiveDiscardedAfterCall ==
  (apc \in {"done", "failed"} /\ Started("extract")) => file_response = NoResponse

(***************************************************************************)
(* Termination and acceptance of the wait call, under SpecWaitFair and     *)
(* SpecWait.                                                               *)
(***************************************************************************)
Max(a, b) == IF a >= b THEN a ELSE b

WaitOver == wpc \in {"returned", "raised"}

\* the bound on the find_element calls of one wait call
AttemptsBounded ==
  /\ Len(locates) <= Max(wait_time, 0)
  /\ \A i \in 1..Len(locates) : locates[i].checked < wait_time
  /\ (wpc # "idle" /\ wait_time <= 0) =>
       /\ locates = <<>>
       /\ wpc = "raised" => werr = "ElementNotFound"

\* C18: a wait call with budget N ends, by return or by an exception; it makes at
\* most max(N, 0) find_element calls, each after a timeout check that passed, and
\* with N <= 0 it raises ElementNotFound without any find_element call.
C18_WaitTerminates == []AttemptsBounded /\ <>WaitOver

C18_Witness ==
  /\ wpc = "raised"
  /\ werr = "ElementNotFound"
  /\ wait_time = MaxBudget
  /\ Len(locates) = wait_time

C18_WitnessNoBudget == wpc = "raised" /\ wait_time <= 0 /\ locates = <<>>

\* C19: the call returns only when its last find_element call, started while the
\* whole seconds elapsed were below the budget, returned an element; such a result
\* is accepted whenever it arrives, with no timeout check between it and the return.
C19_ReturnsOnlyOnElement ==
  /\ wpc = "returned" =>
       /\ locates # <<>>
       /\ locates[Len(locates)].outcome = "element"
       /\ locates[Len(locates)].started \div TicksPerSec < wait_time
       /\ locates[Len(locates)].checked = locates[Len(locates)].started \div TicksPerSec
       /\ total_time = locates[Len(locates)].checked
       /\ sleeps[Len(sleeps)] = "settle"
  /\ (locates # <<>> /\ locates[Len(locates)].outcome = "element") =>
       /\ wpc \in {"if", "returned"}
       /\ werr = "none"
       /\ is_element_found = "True"

\* a result that arrived after the budget had elapsed was accepted
C19_Witness ==
  /\ wpc = "returned"
  /\ locates[Len(locates)].outcome = "element"
  /\ locates[Len(locates)].ended >= wait_time * TicksPerSec

(***************************************************************************)
(* generate_string_xpath on a bounded document.                            *)
(***************************************************************************)
\* the elements whose first text node contains the trimmed text
Matching == {i \in Elements(dom) : Contains(dom.content[i], trim(text))}

RECURSIVE Ancestors(_, _)
\* the elements from the root element down to i
Ancestors(d, i) ==
  IF i = 0 THEN <<>> ELSE Append(Ancestors(d, ParentNode(d, i)), i)

\* the path has one tag[index] segment per level from the root element down to
\* the matched element, index being the 1-based position among the child
\* elements of the same parent that have the same tag name
OneSegmentPerLevel ==
  LET line  == Ancestors(dom, node)
      steps_ == LocationSteps(xpath)
  IN  /\ xpath # None
      /\ Len(steps_) = Len(line)
      /\ Len(line) = dom.depth[node]
      /\ \A k \in 1..Len(line) :
           /\ steps_[k].tag = ToLowerCase[dom.tag[line[k]]]
           /\ steps_[k].position = DecimalString[
                Cardinality({j \in Elements(dom) :
                   /\ ParentNode(dom, j) = ParentNode(dom, line[k])
                   /\ ToLowerCase[dom.tag[j]] = ToLowerCase[dom.tag[line[k]]]
                   /\ j <= line[k]})]

ResolvesToMatched ==
  xpath # None /\ find_element_by_xpath(dom, xpath) = node

\* the segments part of C13 alone: whenever an element matches, the call
\* returns the segments of the first match; when none matches it returns nothing
SegmentsOfFirstMatch ==
  xpc = "returned" =>
    IF Matching # {}
    THEN /\ node \in Matching
         /\ \A j \in Matching : node <= j
         /\ OneSegmentPerLevel
    ELSE xpath = None

\* C13: when an element matches the text, the returned path has one tag[index]
\* segment per ancestor level and resolving it against the same document yields
\* exactly the matched element; when no element matches, the result is absent
C13_RoundTrip ==
  xpc = "returned" =>
    IF Matching # {}
    THEN /\ node \in Matching
         /\ OneSegmentPerLevel
         /\ ResolvesToMatched
    ELSE xpath = None

\* the root element's tag does not recur along a chain below it
RootTagUnique ==
  \A i \in Elements(dom) :
    i # 1 => ToLowerCase[dom.tag[i]] # ToLowerCase[dom.tag[1]]

\* the round trip on the documents whose root tag occurs once
RoundTripUnderUniqueRoot ==
  (xpc = "returned" /\ Matching # {} /\ RootTagUnique) => ResolvesToMatched

====
